---- MODULE Spec2Model ----
(***************************************************************************)
(* A model of ccs_tools/CCSTrending.py: the lazily fetched channel tree    *)
(* (Channel, ChannelMap), the glob resolution and title/name suggestion    *)
(* (ChannelMapHelper), the time periods (TimePeriod, DeltaTimePeriod) and  *)
(* the plot list of the CCSTrending facade.                                *)
(*                                                                         *)
(* Python strings are sequences of one-character strings, so that split,   *)
(* join, slicing and fnmatch are computed as the code computes them.       *)
(* An optional value (None or a value) is a sequence of length 0 or 1.     *)
(***************************************************************************)
EXTENDS Integers, Sequences, FiniteSets, TLC

VARIABLES
    tree,      \* which tree the REST server holds
    nodes,     \* the Channel objects of the ChannelMap, by REST id
    gets,      \* per node, the GET requests sent for its children
    okGets,    \* per node, those answered with a success status
    ret,       \* the last call and what it returned or raised
    made,      \* whether a CCSTrending object has been constructed
    plots,     \* CCSTrending.plots
    title,     \* CCSTrending.title
    titleArg,  \* the title the caller passed to the constructor, if any
    delta,     \* DeltaTimePeriod.delta
    clock,     \* what utcnow() returns, as the time since the epoch
    ticks,     \* how many times the clock has advanced
    out        \* what the last call on the time period returned

vars == <<tree, nodes, gets, okGets, ret, made, plots, title, titleArg,
          delta, clock, ticks, out>>

treeVars == <<tree, nodes, gets, okGets, ret>>

facadeVars == <<made, plots, title, titleArg>>

timeVars == <<delta, clock, ticks, out>>

\* ------------------------------------------------------------------ bounds
\* A call is not issued once some node has been sent MaxGets GET requests.
MaxGets == 2

\* add_channel and add_all are not called on a plot list of MaxPlots entries.
MaxPlots == 2

\* The clock advances at most MaxTicks times.
MaxTicks == 3

\* ----------------------------------------------------------------- strings
None == <<>>

Some(v) == <<v>>

Slash == "/"

Star == "*"

\* The items of a sequence.
Range(f) == {f[i] : i \in DOMAIN f}

\* s[from..to] (1-based, inclusive); empty when from > to.
Slice(s, from, to) == [i \in 1..(to - from + 1) |-> s[from + i - 1]]

\* The first position >= i of s holding c, or 0.
RECURSIVE IndexFrom(_, _, _)
IndexFrom(s, c, i) ==
    IF i > Len(s) THEN 0
    ELSE IF s[i] = c THEN i
    ELSE IndexFrom(s, c, i + 1)

\* str.split('/', 1): at most two tokens, cut at the first '/'.
Split1(s) ==
    LET k == IndexFrom(s, Slash, 1)
    IN  IF k = 0 THEN <<s>>
        ELSE <<Slice(s, 1, k - 1), Slice(s, k + 1, Len(s))>>

\* str.split('/'): every '/' separates; "" splits to [""].
RECURSIVE Split(_)
Split(s) ==
    LET k == IndexFrom(s, Slash, 1)
    IN  IF k = 0 THEN <<s>>
        ELSE <<Slice(s, 1, k - 1)>> \o Split(Slice(s, k + 1, Len(s)))

\* '/'.join(list)
RECURSIVE Join(_)
Join(l) ==
    IF l = <<>> THEN <<>>
    ELSE IF Len(l) = 1 THEN l[1]
    ELSE l[1] \o <<Slash>> \o Join(Tail(l))

\* fnmatch.translate: the index of the ']' closing the class opened by the
\* '[' at position j of p, or 0 when the '[' is a literal.
ClassEnd(p, j) ==
    LET a == IF j + 1 <= Len(p) /\ p[j + 1] = "!" THEN j + 2 ELSE j + 1
        b == IF a <= Len(p) /\ p[a] = "]" THEN a + 1 ELSE a
    IN  IndexFrom(p, "]", b)

\* Whether character c is matched by the class p[j..e] ('[' at j, ']' at e).
InClass(c, p, j, e) ==
    LET neg   == p[j + 1] = "!"
        first == IF neg THEN j + 2 ELSE j + 1
        hit   == \E k \in first..(e - 1) : p[k] = c
    IN  IF neg THEN ~hit ELSE hit

\* fnmatch.fnmatchcase(s, p) from position i of s and j of p: the whole rest
\* of s must match the rest of p; '*' any run, '?' any one character,
\* '[...]' and '[!...]' one character of (not of) the class.
RECURSIVE Match(_, _, _, _)
Match(s, p, i, j) ==
    IF j > Len(p) THEN i > Len(s)
    ELSE IF p[j] = Star THEN \E k \in i..(Len(s) + 1) : Match(s, p, k, j + 1)
    ELSE IF p[j] = "?" THEN i <= Len(s) /\ Match(s, p, i + 1, j + 1)
    ELSE IF p[j] = "[" /\ ClassEnd(p, j) > 0
         THEN i <= Len(s) /\ InClass(s[i], p, j, ClassEnd(p, j))
                /\ Match(s, p, i + 1, ClassEnd(p, j) + 1)
    ELSE i <= Len(s) /\ s[i] = p[j] /\ Match(s, p, i + 1, j + 1)

fnmatchcase(s, p) == Match(s, p, 1, 1)

\* ------------------------------------------------------- the REST server
\* A child-node descriptor {text, id, children, data?} of a response array.
Desc(text, id, children, data) ==
    [text |-> text, id |-> id, children |-> children, data |-> data, hasText |-> TRUE]

\* A descriptor with no 'text' key.
Malformed(id) ==
    [text |-> <<>>, id |-> id, children |-> FALSE, data |-> None, hasText |-> FALSE]

s_cam == <<"c", "a", "m">>

s_A == <<"A">>

s_B == <<"B">>

s_AB == <<"A", "B">>

s_x == <<"x">>

s_c == <<"c">>

s_a_b == <<"a", "/", "b">>

s_empty == <<>>

\* The trees a server may hold: TreeResponse(t, id) is the JSON array the
\* server answers to GET <restURL>?id=<id>.
\*  1: cam -> [A, B], both leaves (the example of the documentation)
\*  2: [cam -> [A -> [x], B, AB], B]
\*  3: cam -> [], a branch with no children
\*  4: cam -> [A, <descriptor without text>, B]
\*  5: [c, a/b], a segment name holding '/'
\*  6: ["" -> [x], cam -> [x]], a top-level branch with an empty name
\*  7: [cam -> [A, B], c -> [A, x]]
TreeIds == 1..7

NodeIds == 0..6

TreeResponse(t, id) ==
    CASE t = 1 /\ id = 0 -> <<Desc(s_cam, 1, TRUE, None)>>
      [] t = 1 /\ id = 1 -> <<Desc(s_A, 2, FALSE, Some(100)), Desc(s_B, 3, FALSE, Some(101))>>
      [] t = 2 /\ id = 0 -> <<Desc(s_cam, 1, TRUE, None), Desc(s_B, 4, FALSE, Some(104))>>
      [] t = 2 /\ id = 1 -> <<Desc(s_A, 2, TRUE, None), Desc(s_B, 3, FALSE, Some(103)),
                              Desc(s_AB, 6, FALSE, Some(106))>>
      [] t = 2 /\ id = 2 -> <<Desc(s_x, 5, FALSE, Some(105))>>
      [] t = 3 /\ id = 0 -> <<Desc(s_cam, 1, TRUE, None)>>
      [] t = 3 /\ id = 1 -> <<>>
      [] t = 4 /\ id = 0 -> <<Desc(s_cam, 1, TRUE, None)>>
      [] t = 4 /\ id = 1 -> <<Desc(s_A, 2, FALSE, Some(100)), Malformed(5),
                              Desc(s_B, 3, FALSE, Some(101))>>
      [] t = 5 /\ id = 0 -> <<Desc(s_c, 1, FALSE, Some(101)), Desc(s_a_b, 2, FALSE, Some(102))>>
      [] t = 6 /\ id = 0 -> <<Desc(s_empty, 1, TRUE, None), Desc(s_cam, 2, TRUE, None)>>
      [] t = 6 /\ id = 1 -> <<Desc(s_x, 3, FALSE, Some(103))>>
      [] t = 6 /\ id = 2 -> <<Desc(s_x, 4, FALSE, Some(104))>>
      [] t = 7 /\ id = 0 -> <<Desc(s_cam, 1, TRUE, None), Desc(s_c, 4, TRUE, None)>>
      [] t = 7 /\ id = 1 -> <<Desc(s_A, 2, FALSE, Some(100)), Desc(s_B, 3, FALSE, Some(101))>>
      [] t = 7 /\ id = 4 -> <<Desc(s_A, 5, FALSE, Some(102)), Desc(s_x, 6, FALSE, Some(103))>>
      [] OTHER -> <<>>

\* ------------------------------------------------------------- Channel
\* Channel.__init__: a node with no children yet.
Channel(path, node) ==
    [path |-> path, text |-> node.text, id |-> node.id, data |-> node.data,
     hasChildren |-> node.children, children |-> <<>>]

\* ChannelMap.__init__: the synthetic root.
RootChannel ==
    [path |-> <<>>, text |-> <<>>, id |-> 0, data |-> None,
     hasChildren |-> TRUE, children |-> <<>>]

\* A full path that forgets the parent's path.
full_path_text(c) == c.text

\* Channel.full_path
full_path(c) ==
    IF c.path # <<>> THEN c.path \o <<Slash>> \o c.text ELSE c.text

\* The position of key in an ordered dict (a sequence of [key, id]), or 0.
RECURSIVE KeyIndex(_, _, _)
KeyIndex(d, key, i) ==
    IF i > Len(d) THEN 0
    ELSE IF d[i].key = key THEN i
    ELSE KeyIndex(d, key, i + 1)

\* A dict that puts a new key first.
DictPutFirst(d, key, id) == <<[key |-> key, id |-> id]>> \o d

\* self.children[key] = c: a new key goes last, a known key keeps its place.
DictPut(d, key, id) ==
    LET k == KeyIndex(d, key, 1)
    IN  IF k = 0 THEN Append(d, [key |-> key, id |-> id])
        ELSE [d EXCEPT ![k] = [key |-> key, id |-> id]]

\* The guard of the lazy fetch.
NeedsLoad(c) == c.hasChildren /\ c.children = <<>>

\* The nodes of st with channel c stored as a child of node n.
WithChild(ns, n, c) ==
    [x \in DOMAIN ns \cup {c.id} |->
        IF x = c.id THEN c
        ELSE IF x = n THEN [ns[n] EXCEPT !.children = DictPut(@, c.text, c.id)]
        ELSE ns[x]]

\* The loop of __load_children over the response from position i: one Channel
\* per descriptor, stored as it is built; a descriptor without 'text' raises
\* KeyError in Channel.__init__ and ends the loop where it stands.
RECURSIVE LoadLoop(_, _, _, _)
LoadLoop(st, n, json, i) ==
    IF i > Len(json) THEN [st |-> st, err |-> "none"]
    ELSE IF ~json[i].hasText THEN [st |-> st, err |-> "KeyError"]
    ELSE LoadLoop([st EXCEPT !.nodes =
                      WithChild(@, n, Channel(full_path(st.nodes[n]), json[i]))],
                  n, json, i + 1)

\* Channel.__load_children of node n; the GET for node `fail` (if any) is
\* answered with an HTTP error, which raise_for_status raises.
LoadChildren(st, n, fail) ==
    IF ~NeedsLoad(st.nodes[n]) THEN [st |-> st, err |-> "none"]
    ELSE IF fail = n THEN [st |-> [st EXCEPT !.gets[n] = @ + 1], err |-> "HTTPError"]
    ELSE LoadLoop([st EXCEPT !.gets[n] = @ + 1, !.okGets[n] = @ + 1], n,
                  TreeResponse(st.tree, n), 1)

\* Channel.find, in three steps: the children are loaded (ld), the first
\* token is looked up among them (k), the rest is left to the child.
RECURSIVE Find(_, _, _, _)
FindChild(st, kids, k, tokens, fail) ==
    IF k = 0 THEN [st |-> st, err |-> "KeyError", value |-> None]
    ELSE IF Len(tokens) = 1 THEN [st |-> st, err |-> "none", value |-> Some(kids[k].id)]
    ELSE Find(st, kids[k].id, tokens[2], fail)

FindLoaded(ld, n, tokens, fail) ==
    IF ld.err # "none" THEN [st |-> ld.st, err |-> ld.err, value |-> None]
    ELSE FindChild(ld.st, ld.st.nodes[n].children,
                   KeyIndex(ld.st.nodes[n].children, tokens[1], 1), tokens, fail)

Find(st, n, name, fail) == FindLoaded(LoadChildren(st, n, fail), n, Split1(name), fail)

\* A test that forgets leaf_only.
LeafOkAlways(leaf_only, child) == TRUE

\* The test of find_all on a child matching the last pattern segment.
LeafOk(leaf_only, child) == ~leaf_only \/ ~child.hasChildren

\* Channel.find_all: the loop over self.children.items() from position i,
\* with the result of the recursive call on a matching child (sub).
RECURSIVE FindAll(_, _, _, _, _), FindAllLoop(_, _, _, _, _, _, _)
FindAllSub(sub, kids, i, tokens, leaf_only, fail, result) ==
    IF sub.err # "none" THEN [st |-> sub.st, err |-> sub.err, value |-> <<>>]
    ELSE FindAllLoop(sub.st, kids, i + 1, tokens, leaf_only, fail, result \o sub.value)

FindAllLoop(st, kids, i, tokens, leaf_only, fail, result) ==
    IF i > Len(kids) THEN [st |-> st, err |-> "none", value |-> result]
    ELSE IF ~fnmatchcase(kids[i].key, tokens[1])
         THEN FindAllLoop(st, kids, i + 1, tokens, leaf_only, fail, result)
    ELSE IF Len(tokens) = 1
         THEN FindAllLoop(st, kids, i + 1, tokens, leaf_only, fail,
                          IF LeafOk(leaf_only, st.nodes[kids[i].id])
                          THEN Append(result, kids[i].id) ELSE result)
    ELSE FindAllSub(FindAll(st, kids[i].id, tokens[2], leaf_only, fail),
                    kids, i, tokens, leaf_only, fail, result)

FindAllLoaded(ld, n, path, leaf_only, fail) ==
    IF ld.err # "none" THEN [st |-> ld.st, err |-> ld.err, value |-> <<>>]
    ELSE FindAllLoop(ld.st, ld.st.nodes[n].children, 1, Split1(path),
                     leaf_only, fail, <<>>)

FindAll(st, n, path, leaf_only, fail) ==
    FindAllLoaded(LoadChildren(st, n, fail), n, path, leaf_only, fail)

\* Channel.ls. The returned list is written flat, one [depth, key, sub] per
\* name in the order of the nested lists; sub says that a nested list follows.
RECURSIVE Ls(_, _, _, _, _), LsLoop(_, _, _, _, _, _)
LsSub(sub, kids, i, depth, fail, l) ==
    IF sub.err # "none" THEN [st |-> sub.st, err |-> sub.err, value |-> <<>>]
    ELSE LsLoop(sub.st, kids, i + 1, depth, fail, l \o sub.value)

LsLoop(st, kids, i, depth, fail, l) ==
    IF i > Len(kids) THEN [st |-> st, err |-> "none", value |-> l]
    ELSE IF ~st.nodes[kids[i].id].hasChildren
         THEN LsLoop(st, kids, i + 1, depth, fail,
                     Append(l, [depth |-> depth, key |-> kids[i].key, sub |-> FALSE]))
    ELSE LsSub(Ls(st, kids[i].id, TRUE, depth + 1, fail), kids, i, depth, fail,
               Append(l, [depth |-> depth, key |-> kids[i].key, sub |-> TRUE]))

LsKeys(kids, depth) ==
    [i \in 1..Len(kids) |-> [depth |-> depth, key |-> kids[i].key, sub |-> FALSE]]

LsLoaded(ld, n, recursive, depth, fail) ==
    IF ld.err # "none" THEN [st |-> ld.st, err |-> ld.err, value |-> <<>>]
    ELSE IF recursive THEN LsLoop(ld.st, ld.st.nodes[n].children, 1, depth, fail, <<>>)
    ELSE [st |-> ld.st, err |-> "none", value |-> LsKeys(ld.st.nodes[n].children, depth)]

Ls(st, n, recursive, depth, fail) ==
    LsLoaded(LoadChildren(st, n, fail), n, recursive, depth, fail)

\* ------------------------------------------------------ ChannelMapHelper
\* A consensus loop that never writes the "*".
RECURSIVE MergeTokensKeep(_, _, _)
MergeTokensKeep(matches, tokens, i) ==
    IF i > Len(tokens) THEN [err |-> "none", matches |-> matches]
    ELSE IF i > Len(matches) THEN [err |-> "IndexError", matches |-> matches]
    ELSE MergeTokensKeep(matches, tokens, i + 1)

\* The inner loop of the consensus (lines 96-98) from position i: a segment
\* that differs from matches[i] turns matches[i] into "*"; reading matches[i]
\* past its end raises IndexError.
RECURSIVE MergeTokens(_, _, _)
MergeTokens(matches, tokens, i) ==
    IF i > Len(tokens) THEN [err |-> "none", matches |-> matches]
    ELSE IF i > Len(matches) THEN [err |-> "IndexError", matches |-> matches]
    ELSE MergeTokens(IF tokens[i] # matches[i]
                     THEN [matches EXCEPT ![i] = <<Star>>] ELSE matches,
                     tokens, i + 1)

\* The outer loop of the consensus over self.channels[1:] from position k;
\* m is the outcome of the inner loop on the channel before.
RECURSIVE Consensus(_, _, _, _)
Consensus(ns, chans, k, m) ==
    IF m.err # "none" \/ k > Len(chans) THEN m
    ELSE Consensus(ns, chans, k + 1,
                   MergeTokens(m.matches, Split(full_path(ns[chans[k]])), 1))

\* The segments of one channel at the "*" positions (lines 104-107) from
\* position i, collected in channel_name.
RECURSIVE WildTokens(_, _, _, _)
WildTokens(matches, tokens, i, channel_name) ==
    IF i > Len(tokens) THEN [err |-> "none", name |-> Join(channel_name)]
    ELSE IF i > Len(matches) THEN [err |-> "IndexError", name |-> <<>>]
    ELSE WildTokens(matches, tokens, i + 1,
                    IF matches[i] = <<Star>> THEN Append(channel_name, tokens[i])
                    ELSE channel_name)

\* The names of all channels (lines 100-108).
ChannelNames(ns, chans, matches) ==
    [k \in 1..Len(chans) |-> WildTokens(matches, Split(full_path(ns[chans[k]])), 1, <<>>)]

\* A result of the helper that raised.
Raised(err) == [err |-> err, title |-> <<>>, names |-> <<>>, kind |-> "none"]

\* fp[:-1] and fp[-1:] of a string.
AllButLast(fp) == Slice(fp, 1, Len(fp) - 1)

LastOnly(fp) == IF fp = <<>> THEN <<>> ELSE <<fp[Len(fp)]>>

\* Lines 99-109, given the consensus and the names.
SuggestNames(matches, nm) ==
    IF \E k \in 1..Len(nm) : nm[k].err # "none" THEN Raised("IndexError")
    ELSE [err |-> "none", title |-> Join(matches),
          names |-> [k \in 1..Len(nm) |-> nm[k].name], kind |-> "list"]

\* Lines 92-109, given the consensus.
SuggestMany(ns, chans, con) ==
    IF con.err # "none" THEN Raised(con.err)
    ELSE SuggestNames(con.matches, ChannelNames(ns, chans, con.matches))

\* Lines 88-90, on the full path of the only match.
SuggestOne(fp) ==
    [err |-> "none", title |-> AllButLast(fp), names |-> LastOnly(fp), kind |-> "str"]

\* ChannelMapHelper.__init__ on the channels find_all returned. kind says
\* whether suggested_names is a str or a list of str.
Suggest(ns, chans) ==
    IF chans = <<>> THEN Raised("RuntimeError")
    ELSE IF Len(chans) = 1 THEN SuggestOne(full_path(ns[chans[1]]))
    ELSE SuggestMany(ns, chans,
                     Consensus(ns, chans, 2,
                               [err |-> "none",
                                matches |-> Split(full_path(ns[chans[1]]))]))

HelperSuggested(fa, sg) ==
    [st |-> fa.st, err |-> sg.err, channels |-> fa.value, title |-> sg.title,
     names |-> sg.names, kind |-> sg.kind]

HelperFound(fa) ==
    IF fa.err # "none"
    THEN [st |-> fa.st, err |-> fa.err, channels |-> <<>>, title |-> <<>>,
          names |-> <<>>, kind |-> "none"]
    ELSE HelperSuggested(fa, Suggest(fa.st.nodes, fa.value))

\* ChannelMapHelper(path, cm): cm.find_all(path, leaf_only=True) on the root,
\* then the suggestion.
ChannelMapHelper(st, path, fail) == HelperFound(FindAll(st, 0, path, TRUE, fail))

\* ------------------------------------------------------------ CCSTrending
\* The title of a constructor call that passes none.
DefaultTitle == <<"T", "r", "e", "n", "d", "i", "n", "g", " ", "P", "l", "o", "t">>

\* The arguments of add_channel: an int, a Channel of the map, a str, or a
\* value of another type.
IntId(v) == [t |-> "int", v |-> v]

ChanId(n) == [t |-> "chan", v |-> n]

StrId(s) == [t |-> "str", v |-> s]

OtherId == [t |-> "other", v |-> 0]

\* Python's truth of an optional str: None and "" are false.
Truthy(key) == key # None /\ key[1] # <<>>

\* A plot list that skips an entry it already holds.
PlotsAppendNew(pl, e) == IF e \in Range(pl) THEN pl ELSE Append(pl, e)

\* self.plots.append([id, key])
PlotsAppend(pl, e) == Append(pl, e)

\* Line 227, for the Channel c.
AddChan(st, pl, c, key) ==
    [st |-> st, err |-> "none",
     plots |-> PlotsAppend(pl, [id |-> c.data,
                                key |-> Some(IF Truthy(key) THEN key[1] ELSE full_path(c))])]

\* Line 230, given what self.cm.find(id) returned or raised (f).
AddFound(f, pl, key) ==
    IF f.err # "none" THEN [st |-> f.st, err |-> f.err, plots |-> pl]
    ELSE [st |-> f.st, err |-> "none",
          plots |-> PlotsAppend(pl, [id |-> f.st.nodes[f.value[1]].data,
                                     key |-> Some(IF Truthy(key) THEN key[1]
                                                  ELSE f.st.nodes[f.value[1]].text)])]

\* CCSTrending.add_channel(id, key). The message of the RuntimeError of the
\* last branch is built as str + id with an id that is no str: that raises
\* TypeError first.
AddChannel(st, pl, id, key, fail) ==
    IF id.t = "int"
    THEN [st |-> st, err |-> "none",
          plots |-> PlotsAppend(pl, [id |-> Some(id.v), key |-> key])]
    ELSE IF id.t = "chan" THEN AddChan(st, pl, st.nodes[id.v], key)
    ELSE IF id.t = "str" THEN AddFound(Find(st, 0, id.v, fail), pl, key)
    ELSE [st |-> st, err |-> "TypeError", plots |-> pl]

\* The loop of add_all, and of the constructor over its pairs, from position
\* i: add_channel(ids[i], keys[i]) until one raises; a is the outcome of the
\* call before.
RECURSIVE AddEach(_, _, _, _, _)
AddEach(a, ids, keys, i, fail) ==
    IF a.err # "none" \/ i > Len(ids) THEN a
    ELSE AddEach(AddChannel(a.st, a.plots, ids[i], keys[i], fail), ids, keys, i + 1, fail)

NoKeys(channels) == [i \in 1..Len(channels) |-> None]

\* CCSTrending.add_all(channels)
AddAll(st, pl, channels, fail) ==
    AddEach([st |-> st, err |-> "none", plots |-> pl], channels, NoKeys(channels), 1, fail)

\* What iterating suggested_names yields: the items of a list, the
\* characters of a str.
Iterate(names, kind) ==
    IF kind = "str" THEN [i \in 1..Len(names) |-> <<names[i]>>] ELSE names

Min(a, b) == IF a < b THEN a ELSE b

\* The data argument of the constructor: None, a str, a dict (its pairs in
\* order) or a value of another type.
NoData == [t |-> "none", v |-> <<>>]

StrData(s) == [t |-> "str", v |-> s]

DictData(pairs) == [t |-> "dict", v |-> pairs]

OtherData == [t |-> "other", v |-> <<0>>]

\* The outcome of a constructor.
Built(add, ttl, suggested) ==
    [st |-> add.st, err |-> add.err, plots |-> add.plots, title |-> ttl,
     suggested |-> suggested]

ZippedChannels(channels, nm) ==
    [i \in 1..Min(Len(channels), Len(nm)) |-> ChanId(channels[i])]

ZippedNames(channels, nm) ==
    [i \in 1..Min(Len(channels), Len(nm)) |-> Some(nm[i])]

\* Lines 204-208, given the helper (cmh) and its suggested names as iterated.
BuildFromHelper(cmh, nm, title0, fail) ==
    IF cmh.err # "none"
    THEN Built([st |-> cmh.st, err |-> cmh.err, plots |-> <<>>], title0, None)
    ELSE Built(AddEach([st |-> cmh.st, err |-> "none", plots |-> <<>>],
                       ZippedChannels(cmh.channels, nm), ZippedNames(cmh.channels, nm),
                       1, fail),
               cmh.title, Some(cmh.title))

BuildFromStr(cmh, title0, fail) ==
    BuildFromHelper(cmh, Iterate(cmh.names, cmh.kind), title0, fail)

PairIds(pairs) == [i \in 1..Len(pairs) |-> pairs[i].id]

PairKeys(pairs) == [i \in 1..Len(pairs) |-> pairs[i].key]

\* CCSTrending.__init__(title, data) on a new ChannelMap st. As in
\* add_channel, the message of the last branch raises TypeError.
Construct(st, title0, data, fail) ==
    IF data.t = "none" \/ data.v = <<>>
    THEN Built([st |-> st, err |-> "none", plots |-> <<>>], title0, None)
    ELSE IF data.t = "str"
    THEN BuildFromStr(ChannelMapHelper(st, data.v, fail), title0, fail)
    ELSE IF data.t = "dict"
    THEN Built(AddEach([st |-> st, err |-> "none", plots |-> <<>>],
                       PairIds(data.v), PairKeys(data.v), 1, fail),
               title0, None)
    ELSE Built([st |-> st, err |-> "TypeError", plots |-> <<>>], title0, None)

\* ----------------------------------------------------------- TimePeriod
SecondsPerDay == 86400

MicrosPerSecond == 1000000

MicrosPerMilli == 1000

MillisPerSecond == 1000

\* datetime.timedelta(days, seconds, microseconds), normalised as Python
\* does: 0 <= seconds < 86400, 0 <= microseconds < 1000000. An instant is the
\* timedelta since TimePeriod.epoch.
timedelta(d, sec, us) ==
    [days         |-> d + ((sec + (us \div MicrosPerSecond)) \div SecondsPerDay),
     seconds      |-> (sec + (us \div MicrosPerSecond)) % SecondsPerDay,
     microseconds |-> us % MicrosPerSecond]

\* a - b and a + b of timedeltas.
Minus(a, b) ==
    timedelta(a.days - b.days, a.seconds - b.seconds, a.microseconds - b.microseconds)

Plus(a, b) ==
    timedelta(a.days + b.days, a.seconds + b.seconds, a.microseconds + b.microseconds)

\* The whole seconds of d rounded down.
WholeSeconds(d) == d.days * SecondsPerDay + d.seconds

\* int(x) and "%d" % x of the number whole + (a fraction in [0, 1) that is
\* zero iff ~frac): truncation toward zero.
Truncate(whole, frac) == IF frac /\ whole < 0 THEN whole + 1 ELSE whole

\* The decimal digits of a natural number, and "%d" of an integer.
Digits == <<"0", "1", "2", "3", "4", "5", "6", "7", "8", "9">>

RECURSIVE Decimal(_)
Decimal(n) ==
    IF n < 10 THEN <<Digits[n + 1]>>
    ELSE Decimal(n \div 10) \o <<Digits[(n % 10) + 1]>>

Format(n) == IF n < 0 THEN <<"-">> \o Decimal(0 - n) ELSE Decimal(n)

\* A serialization in milliseconds.
as_ccs_string_millis(d) ==
    Format(WholeSeconds(d) * MillisPerSecond + (d.microseconds \div MicrosPerMilli))

\* DeltaTimePeriod.as_ccs_string: "%d" % self.delta.total_seconds()
as_ccs_string(d) == Format(Truncate(WholeSeconds(d), d.microseconds # 0))

\* The milliseconds of d rounded down.
WholeMillis(d) ==
    WholeSeconds(d) * MillisPerSecond + (d.microseconds \div MicrosPerMilli)

\* TimePeriod.to_millis: int(total_seconds() * 1000), the values it can
\* return. The product is a floating-point one: for a whole number of
\* milliseconds it may fall just short of the integer (1.001 * 1000 is
\* 1000.9999999999999), and int() then yields the integer next to zero.
to_millis(d) ==
    IF d.microseconds % MicrosPerMilli # 0 THEN {Truncate(WholeMillis(d), TRUE)}
    ELSE IF WholeMillis(d) > 0 THEN {WholeMillis(d), WholeMillis(d) - 1}
    ELSE IF WholeMillis(d) < 0 THEN {WholeMillis(d), WholeMillis(d) + 1}
    ELSE {0}

\* --------------------------------------------------------------- calls
\* The patterns and names the calls are made with.
p_cam == s_cam

p_cam_star == <<"c", "a", "m", "/", "*">>

p_cam_q == <<"c", "a", "m", "/", "?">>

p_star == <<"*">>

p_star_x == <<"*", "/", "x">>

p_star_star == <<"*", "/", "*">>

p_cam_A == <<"c", "a", "m", "/", "A">>

p_cam_A_x == <<"c", "a", "m", "/", "A", "/", "x">>

p_cam_AB == <<"c", "a", "m", "/", "A", "B">>

p_cam_notA == <<"c", "a", "m", "/", "[", "!", "A", "]", "*">>

p_cam_z == <<"c", "a", "m", "/", "z">>

s_T == <<"T">>

Patterns ==
    {p_cam, p_cam_star, p_cam_q, p_star, p_star_x, p_star_star, p_cam_A_x,
     p_cam_AB, p_cam_notA, s_x, s_empty}

Names == {p_cam, p_cam_A_x, p_cam_AB, p_cam_z, s_a_b, s_x, s_B}

NoFail == -1

\* The nodes a GET can be sent for: the root and the descriptors flagged as
\* having children. One GET of a call may be answered with an HTTP error; the
\* call ends there, so one choice per call covers every failure.
Branches(t) ==
    {0} \cup {id \in NodeIds :
                \E p \in NodeIds : \E i \in 1..Len(TreeResponse(t, p)) :
                    /\ TreeResponse(t, p)[i].id = id
                    /\ TreeResponse(t, p)[i].children}

\* A failure is chosen only for a node whose children are still to be fetched:
\* no GET is sent for the others.
FailChoices ==
    {NoFail} \cup {b \in Branches(tree) : b \in DOMAIN nodes => NeedsLoad(nodes[b])}

\* The channels find and find_all are called on: the root (ChannelMap) and the
\* folders the caller holds; ls is called on every channel.
Folders == {n \in DOMAIN nodes : nodes[n].hasChildren}

St == [tree |-> tree, nodes |-> nodes, gets |-> gets, okGets |-> okGets]

NoRet ==
    [op |-> "none", start |-> 0, arg |-> <<>>, key |-> <<>>, flag |-> FALSE,
     err |-> "none", value |-> <<>>, title |-> <<>>, names |-> <<>>, kind |-> "none"]

NoOut == [op |-> "none", s |-> <<>>, now |-> timedelta(0, 0, 0), start |-> 0, end |-> 0]

CanCall == \A n \in NodeIds : gets[n] < MaxGets

Commit(st) ==
    /\ nodes' = st.nodes
    /\ gets' = st.gets
    /\ okGets' = st.okGets
    /\ tree' = tree

NewMap == [x \in {0} |-> RootChannel]

InitMap ==
    /\ nodes = NewMap
    /\ gets = [n \in NodeIds |-> 0]
    /\ okGets = [n \in NodeIds |-> 0]
    /\ ret = NoRet

InitFacadeVars ==
    /\ made = FALSE
    /\ plots = <<>>
    /\ title = <<>>
    /\ titleArg = None

InitTimeVars ==
    /\ delta = timedelta(0, 0, 0)
    /\ clock = timedelta(0, 0, 0)
    /\ ticks = 0
    /\ out = NoOut

\* A new ChannelMap on any of the trees.
Init ==
    /\ tree \in TreeIds
    /\ InitMap
    /\ InitFacadeVars
    /\ InitTimeVars

\* The calls on a channel: r is what the call returns or raises, with the
\* map it leaves.
Returned(op, start, arg, flag, r) ==
    /\ CanCall
    /\ Commit(r.st)
    /\ ret' = [NoRet EXCEPT !.op = op, !.start = start, !.arg = arg, !.flag = flag,
                            !.err = r.err, !.value = r.value]
    /\ UNCHANGED <<facadeVars, timeVars>>

\* channel.find(name) on a folder the caller holds (the root through
\* ChannelMap.find).
CallFind ==
    \E start \in Folders, name \in Names, fail \in FailChoices :
        Returned("find", start, name, FALSE, Find(St, start, name, fail))

\* channel.find_all(path, leaf_only)
CallFindAll ==
    \E start \in Folders, path \in Patterns, leaf_only \in BOOLEAN, fail \in FailChoices :
        Returned("find_all", start, path, leaf_only,
                 FindAll(St, start, path, leaf_only, fail))

\* channel.ls(recursive)
CallLs ==
    \E start \in DOMAIN nodes, recursive \in BOOLEAN, fail \in FailChoices :
        Returned("ls", start, <<>>, recursive, Ls(St, start, recursive, 0, fail))

HelperReturned(path, r) ==
    /\ CanCall
    /\ Commit(r.st)
    /\ ret' = [NoRet EXCEPT !.op = "helper", !.arg = path, !.flag = TRUE,
                            !.err = r.err, !.value = r.channels, !.title = r.title,
                            !.names = r.names, !.kind = r.kind]
    /\ UNCHANGED <<facadeVars, timeVars>>

\* ChannelMapHelper(path, cm)
CallHelper ==
    \E path \in Patterns, fail \in FailChoices :
        HelperReturned(path, ChannelMapHelper(St, path, fail))

Next == CallFind \/ CallFindAll \/ CallLs \/ CallHelper

Spec == Init /\ [][Next]_vars

\* ------------------------------------------------- calls on the facade
FacadeTrees == {1}

Keys == {None, Some(s_empty), Some(s_T)}

Titles == {None, Some(s_T)}

\* The data arguments the constructor is called with.
Datas ==
    <<NoData, OtherData, StrData(s_empty), StrData(p_cam_star), StrData(p_cam_A),
      StrData(p_star), StrData(p_cam_z),
      DictData(<<[id |-> StrId(p_cam_A), key |-> Some(s_T)]>>),
      DictData(<<[id |-> IntId(7), key |-> Some(s_T)],
                 [id |-> StrId(p_cam_z), key |-> None]>>)>>

\* The identifiers add_channel is called with, beside the Channels of the map.
Ids == <<IntId(7), OtherId, StrId(p_cam_A), StrId(p_cam_z)>>

\* The lists add_all is called with.
Lists ==
    <<<<IntId(7), StrId(p_cam_A)>>, <<StrId(p_cam_A), OtherId, IntId(7)>>,
      <<StrId(p_cam_A), StrId(p_cam_A)>>>>

\* No CCSTrending object yet.
InitFacade ==
    /\ tree \in FacadeTrees
    /\ InitMap
    /\ InitFacadeVars
    /\ InitTimeVars

\* The arguments of a constructor call on a new object.
TitleOf(t) == IF t = None THEN DefaultTitle ELSE t[1]

Fresh == [St EXCEPT !.nodes = NewMap]

\* CCSTrending(title=t, data=data), or CCSTrending(data=data) when t is None;
\* r is what __init__ leaves. A constructor that raises leaves no object, and
\* no ChannelMap.
Constructed(t, data, r) ==
    /\ ~made
    /\ CanCall
    /\ tree' = tree
    /\ gets' = r.st.gets
    /\ okGets' = r.st.okGets
    /\ ret' = [NoRet EXCEPT !.op = "construct", !.arg = data, !.err = r.err,
                            !.title = r.suggested]
    /\ made' = (r.err = "none")
    /\ nodes' = IF r.err = "none" THEN r.st.nodes ELSE NewMap
    /\ plots' = IF r.err = "none" THEN r.plots ELSE <<>>
    /\ title' = IF r.err = "none" THEN r.title ELSE <<>>
    /\ titleArg' = IF r.err = "none" THEN t ELSE None
    /\ UNCHANGED timeVars

DoConstruct(t, data, fail) ==
    Constructed(t, data, Construct(Fresh, TitleOf(t), data, fail))

\* A call that adds to the plot list; r is what it leaves.
Added(op, arg, key, r) ==
    /\ made
    /\ CanCall
    /\ Len(plots) < MaxPlots
    /\ Commit(r.st)
    /\ plots' = r.plots
    /\ ret' = [NoRet EXCEPT !.op = op, !.arg = arg, !.key = key, !.err = r.err]
    /\ UNCHANGED <<made, title, titleArg, timeVars>>

\* t.add_channel(id, key)
DoAddChannel(id, key, fail) ==
    Added("add_channel", id, key, AddChannel(St, plots, id, key, fail))

\* t.add_all(channels)
DoAddAll(channels, fail) ==
    Added("add_all", channels, None, AddAll(St, plots, channels, fail))

CallConstruct ==
    \E t \in Titles, i \in 1..Len(Datas), fail \in FailChoices :
        DoConstruct(t, Datas[i], fail)

\* add_channel with an int, a str or another value.
CallAddChannel ==
    \E key \in Keys, fail \in FailChoices, i \in 1..Len(Ids) :
        DoAddChannel(Ids[i], key, fail)

\* add_channel with a Channel of the map.
CallAddChannelObject ==
    \E key \in Keys, n \in DOMAIN nodes : DoAddChannel(ChanId(n), key, NoFail)

CallAddAll ==
    \E i \in 1..Len(Lists), fail \in FailChoices : DoAddAll(Lists[i], fail)

NextFacade == CallConstruct \/ CallAddChannel \/ CallAddChannelObject \/ CallAddAll

SpecFacade == InitFacade /\ [][NextFacade]_vars

\* ---------------------------------------------- calls on a DeltaTimePeriod
\* The durations a DeltaTimePeriod is made of: 0, 1 us, 1 ms, 1.5 ms, 1 s,
\* 1.5 s, -1.5 s, 1 day, 1 day 1.001 s.
Deltas ==
    {timedelta(0, 0, 0), timedelta(0, 0, 1), timedelta(0, 0, 1000),
     timedelta(0, 0, 1500), timedelta(0, 1, 0), timedelta(0, 1, 500000),
     timedelta(0, -1, -500000), timedelta(1, 0, 0), timedelta(1, 1, 1000)}

\* What utcnow() is at first, since the epoch: 1.001 s, 2.0005 s, 1 day,
\* 2 days 3.25 s.
Clocks ==
    {timedelta(0, 1, 1000), timedelta(0, 2, 500), timedelta(1, 0, 0),
     timedelta(2, 3, 250000)}

\* How much time passes between two calls.
Steps == {timedelta(0, 0, 1), timedelta(0, 0, 999), timedelta(0, 1, 0)}

InitTime ==
    /\ tree = 1
    /\ InitMap
    /\ InitFacadeVars
    /\ delta \in Deltas
    /\ clock \in Clocks
    /\ ticks = 0
    /\ out = NoOut

\* Time passes.
Tick ==
    /\ ticks < MaxTicks
    /\ \E step \in Steps : clock' = Plus(clock, step)
    /\ ticks' = ticks + 1
    /\ UNCHANGED <<delta, out, treeVars, facadeVars>>

\* DeltaTimePeriod(delta).as_ccs_string()
CallAsCcsString ==
    /\ out' = [NoOut EXCEPT !.op = "as_ccs_string", !.s = as_ccs_string(delta)]
    /\ UNCHANGED <<delta, clock, ticks, treeVars, facadeVars>>

\* DeltaTimePeriod(delta).as_millis(): now is read once.
CallAsMillis ==
    /\ \E a \in to_millis(Minus(clock, delta)), b \in to_millis(clock) :
          out' = [NoOut EXCEPT !.op = "as_millis", !.now = clock, !.start = a, !.end = b]
    /\ UNCHANGED <<delta, clock, ticks, treeVars, facadeVars>>

NextTime == Tick \/ CallAsCcsString \/ CallAsMillis

SpecTime == InitTime /\ [][NextTime]_vars

\* =================================================================== claims
\* What the claims speak of, written from the server's tree and not from the
\* traversal: the descriptors a client can turn into channels (those before a
\* descriptor without text), and every node below a folder in depth-first
\* order, children in the order of the response, with its segment names.
RECURSIVE Usable(_, _)
Usable(json, i) ==
    IF i > Len(json) \/ ~json[i].hasText THEN <<>>
    ELSE <<json[i]>> \o Usable(json, i + 1)

RECURSIVE Below(_, _, _), BelowFrom(_, _, _, _)
BelowFrom(t, json, i, keys) ==
    IF i > Len(json) THEN <<>>
    ELSE LET k == Append(keys, json[i].text)
         IN  <<[id |-> json[i].id, keys |-> k, hasChildren |-> json[i].children,
                data |-> json[i].data]>>
             \o (IF json[i].children THEN Below(t, json[i].id, k) ELSE <<>>)
             \o BelowFrom(t, json, i + 1, keys)

Below(t, n, keys) == BelowFrom(t, Usable(TreeResponse(t, n), 1), 1, keys)

\* The segments of e match the pattern one glob per level.
MatchesPattern(e, path) ==
    LET segs == Split(path)
    IN  /\ Len(e.keys) = Len(segs)
        /\ \A i \in 1..Len(segs) : fnmatchcase(e.keys[i], segs[i])

Matching(t, start, path, leaf_only) ==
    LET Keep(e) == MatchesPattern(e, path) /\ (leaf_only => ~e.hasChildren)
        sel     == SelectSeq(Below(t, start, <<>>), Keep)
    IN  [i \in 1..Len(sel) |-> sel[i].id]

\* Every segment name of the tree is non-empty and holds no '/'.
NoSlashNames(t) ==
    \A p \in NodeIds : \A i \in 1..Len(TreeResponse(t, p)) :
        TreeResponse(t, p)[i].hasText => Slash \notin Range(TreeResponse(t, p)[i].text)

PlainNames(t) ==
    /\ NoSlashNames(t)
    /\ \A p \in NodeIds : \A i \in 1..Len(TreeResponse(t, p)) :
          TreeResponse(t, p)[i].hasText => TreeResponse(t, p)[i].text # <<>>

\* C1: once a node's GET has been answered successfully, no later call sends
\* another GET for that node.
C1_FetchAtMostOnce ==
    [][\A n \in NodeIds : okGets[n] >= 1 => gets'[n] = gets[n]]_vars

\* C4: find_all returns exactly the nodes below the starting node whose
\* segments match the pattern level by level (leaves only under leaf_only),
\* each once, depth-first with the children of a folder in the order of the
\* REST response.
C4_FindAllExact ==
    (ret.op = "find_all" /\ ret.err = "none")
        => ret.value = Matching(tree, ret.start, ret.arg, ret.flag)

\* The example: cam -> [A, B], find_all("cam/*", leaf_only=True) is A then B.
C4_Witness ==
    /\ tree = 1
    /\ ret.op = "find_all" /\ ret.err = "none" /\ ret.start = 0
    /\ ret.arg = p_cam_star /\ ret.flag
    /\ ret.value = <<2, 3>>

\* C5: with leaf_only no returned node has hasChildren; without it every node
\* matching the pattern is returned, folders included.
C5_LeafOnly ==
    (ret.op = "find_all" /\ ret.err = "none")
        => /\ ret.flag => \A i \in 1..Len(ret.value) : ~nodes[ret.value[i]].hasChildren
           /\ ~ret.flag => Range(ret.value) = Range(Matching(tree, ret.start, ret.arg, FALSE))

\* A leaf_only search that left out a matching folder and returned a leaf.
C5_Witness ==
    /\ ret.op = "find_all" /\ ret.err = "none" /\ ret.flag
    /\ ret.value # <<>>
    /\ \E n \in Range(Matching(tree, ret.start, ret.arg, FALSE)) :
          nodes[n].hasChildren /\ n \notin Range(ret.value)

\* C6: a node's children mapping is empty or holds one entry per descriptor of
\* the node's response, in every state; a node without children never
\* fetches.
C6_NoPartialFetch ==
    \A n \in DOMAIN nodes :
        /\ \/ nodes[n].children = <<>>
           \/ /\ Len(nodes[n].children) = Len(TreeResponse(tree, n))
              /\ \A i \in 1..Len(nodes[n].children) :
                    nodes[n].children[i].id = TreeResponse(tree, n)[i].id
        /\ ~nodes[n].hasChildren => gets[n] = 0 /\ nodes[n].children = <<>>

\* C2: with exactly one match, suggested_title is the full path's segments
\* but the last joined by '/', and suggested_names is the list of the last
\* segment alone.
C2_SingleMatch ==
    (ret.op = "helper" /\ ret.err = "none" /\ Len(ret.value) = 1)
        => LET segs == Split(full_path(nodes[ret.value[1]]))
           IN  /\ ret.title = Join(SubSeq(segs, 1, Len(segs) - 1))
               /\ ret.kind = "list"
               /\ ret.names = <<segs[Len(segs)]>>

\* The pieces put into the "*" positions of the title's segments, in order.
RECURSIVE Substitute(_, _)
Substitute(t, pieces) ==
    IF t = <<>> THEN [ok |-> pieces = <<>>, segs |-> <<>>]
    ELSE IF Head(t) = <<Star>>
    THEN IF pieces = <<>> THEN [ok |-> FALSE, segs |-> <<>>]
         ELSE LET r == Substitute(Tail(t), Tail(pieces))
              IN  [ok |-> r.ok, segs |-> <<Head(pieces)>> \o r.segs]
    ELSE LET r == Substitute(Tail(t), pieces)
         IN  [ok |-> r.ok, segs |-> <<Head(t)>> \o r.segs]

Reconstructs(ttl, name, fp) ==
    LET r == Substitute(Split(ttl), Split(name))
    IN  r.ok /\ Join(r.segs) = fp

\* What C3 says of a helper that matched several channels.
RoundTrip ==
    /\ ret.err = "none"
    /\ ret.kind = "list"
    /\ \A k \in 1..Len(ret.value) :
          Reconstructs(ret.title, ret.names[k], full_path(nodes[ret.value[k]]))
    /\ \A i \in 1..Len(Split(ret.title)) :
          Split(ret.title)[i] # <<Star>> =>
              \A k \in 1..Len(ret.value) :
                  LET segs == Split(full_path(nodes[ret.value[k]]))
                  IN  i <= Len(segs) /\ segs[i] = Split(ret.title)[i]

\* C3 as stated: for every tree, when the pattern matches more than one leaf,
\* each suggested name put back into the "*" positions of the title gives the
\* channel's full path, and the other positions agree in every match.
C3_RoundTripAnyTree ==
    (ret.op = "helper" /\ Len(ret.value) > 1) => RoundTrip

\* C3 amended: the same, for trees whose segment names are non-empty and hold
\* no '/'.
C3_RoundTripPlainNames ==
    (PlainNames(tree) /\ ret.op = "helper" /\ Len(ret.value) > 1) => RoundTrip

\* Several matches that differ at two positions of the path.
C3_Witness ==
    /\ PlainNames(tree)
    /\ ret.op = "helper" /\ ret.err = "none" /\ Len(ret.value) > 1
    /\ ret.title = p_star_star
    /\ \E k \in 1..Len(ret.value) : Len(Split(ret.names[k])) = 2

\* What C10 says of a call through ChannelMap with a pattern of k segments.
EqualDepth ==
    LET k == Len(Split(ret.arg))
    IN  /\ (ret.op \in {"find_all", "helper"} /\ ret.start = 0 /\ ret.err # "HTTPError"
              /\ ret.err # "KeyError")
            => \A i \in 1..Len(ret.value) :
                  /\ \E e \in Range(Below(tree, 0, <<>>)) :
                        e.id = ret.value[i] /\ Len(e.keys) = k
                  /\ Len(Split(full_path(nodes[ret.value[i]]))) = k
        /\ ret.op = "helper" => ret.err # "IndexError"

\* C10 as stated: in a tree whose names hold no '/', every channel returned
\* for a pattern of k segments lies at depth k and has a full path of k
\* segments, and the consensus loop never indexes past the end.
C10_DepthNoSlash == NoSlashNames(tree) => EqualDepth

\* C10 amended: the same, for trees whose names are non-empty and hold no '/'.
C10_DepthPlainNames == PlainNames(tree) => EqualDepth

\* A helper that matched several channels two levels down.
C10_Witness ==
    /\ PlainNames(tree)
    /\ ret.op = "helper" /\ ret.err = "none"
    /\ Len(ret.value) > 1 /\ Len(Split(ret.arg)) = 2

\* C7: a constructor given a glob path string sets the title to the helper's
\* suggested title only when the caller passed no title; a title the caller
\* passed is the title of the object.
C7_TitleKept ==
    (made /\ ret.op = "construct" /\ ret.arg.t = "str" /\ ret.title # None)
        => title = (IF titleArg # None THEN titleArg[1] ELSE ret.title[1])

\* The channel a path string names in the server's tree, if any.
Resolved(t, name) ==
    LET Named(e) == e.keys = Split(name)
    IN  SelectSeq(Below(t, 0, <<>>), Named)

\* add_channel can add id: it is an int, a Channel, or a path that names a
\* channel.
Addable(id) ==
    \/ id.t \in {"int", "chan"}
    \/ id.t = "str" /\ Resolved(tree, id.v) # <<>>

\* A name was passed; with nonEmpty, a non-empty name was passed.
GivenName(key, nonEmpty) == key # None /\ (nonEmpty => key[1] # <<>>)

\* The pair C8 gives for an identifier and a name.
ExpectedEntry(id, key, nonEmpty) ==
    IF id.t = "int" THEN [id |-> Some(id.v), key |-> key]
    ELSE IF id.t = "chan"
    THEN [id |-> nodes[id.v].data,
          key |-> Some(IF GivenName(key, nonEmpty) THEN key[1]
                       ELSE full_path(nodes[id.v]))]
    ELSE LET e == Resolved(tree, id.v)[1]
         IN  [id |-> e.data,
              key |-> Some(IF GivenName(key, nonEmpty) THEN key[1]
                           ELSE e.keys[Len(e.keys)])]

ExpectedEntries(ids, m, nonEmpty) ==
    [i \in 1..m |-> ExpectedEntry(ids[i], None, nonEmpty)]

RECURSIVE AddablePrefix(_, _)
AddablePrefix(ids, m) == m = 0 \/ (Addable(ids[m]) /\ AddablePrefix(ids, m - 1))

\* What C8 says of one call: a successful add_channel appends its one pair
\* and keeps the entries before, a failed one leaves the list as it was, and
\* an unsupported identifier or an unresolvable path fails; add_all appends
\* the pairs of its channels in order, up to the first that fails.
AppendOnly(nonEmpty) ==
    /\ ret'.op = "add_channel" =>
          /\ ret'.err = "none" =>
                /\ Addable(ret'.arg)
                /\ plots' = Append(plots, ExpectedEntry(ret'.arg, ret'.key, nonEmpty))
          /\ ret'.err # "none" => plots' = plots
          /\ ~Addable(ret'.arg) => ret'.err # "none"
    /\ ret'.op = "add_all" =>
          \E m \in 0..Len(ret'.arg) :
              /\ AddablePrefix(ret'.arg, m)
              /\ plots' = plots \o ExpectedEntries(ret'.arg, m, nonEmpty)
              /\ ret'.err = "none" <=> m = Len(ret'.arg)

\* C8 as stated: every add_channel and add_all call changes the plot list as
\* above, the name of a Channel or of a path being the one passed whenever one
\* was passed.
C8_AppendOnlyAnyName == [][AppendOnly(FALSE)]_vars

\* C8 amended: the same, the name of a Channel or of a path being the one
\* passed when it is not empty, and the full path or the leaf segment
\* otherwise.
C8_AppendOnly == [][AppendOnly(TRUE)]_vars

\* The same path added twice: the list ends with two equal pairs.
C8_Witness ==
    /\ made /\ ret.op = "add_channel" /\ ret.err = "none" /\ ret.arg.t = "str"
    /\ Len(plots) >= 2
    /\ plots[Len(plots)] = plots[Len(plots) - 1]

\* The integer a decimal rendering stands for.
DigitValue(c) == CHOOSE v \in 0..9 : Digits[v + 1] = c

RECURSIVE ParseDigits(_)
ParseDigits(s) ==
    IF s = <<>> THEN 0
    ELSE 10 * ParseDigits(SubSeq(s, 1, Len(s) - 1)) + DigitValue(s[Len(s)])

ParseInt(s) ==
    IF Head(s) = "-" THEN 0 - ParseDigits(Tail(s)) ELSE ParseDigits(s)

\* s is the "%d" rendering of an integer: digits, no leading zero, a sign
\* only before a non-zero number.
IsDecimal(s) ==
    /\ s # <<>>
    /\ LET digits == IF Head(s) = "-" THEN Tail(s) ELSE s
       IN  /\ digits # <<>>
           /\ \A i \in 1..Len(digits) : digits[i] \in Range(Digits)
           /\ Len(digits) > 1 => digits[1] # "0"
           /\ Head(s) = "-" => digits # <<"0">>

\* The part of delta below one millisecond, in microseconds.
SubMilli(d) == d.microseconds % MicrosPerMilli

\* C9 as stated: as_ccs_string is the decimal rendering of the duration in
\* milliseconds, and the window of as_millis is that many milliseconds wide.
C9_Millis ==
    /\ out.op = "as_ccs_string" =>
          IsDecimal(out.s) /\ ParseInt(out.s) = WholeMillis(delta)
    /\ out.op = "as_millis" => out.end - out.start = WholeMillis(delta)

\* C9 amended: as_ccs_string is the decimal rendering of the duration in whole
\* seconds, truncated toward zero (n seconds are no longer than the duration
\* and less than a second shorter, on the duration's side of zero); the width
\* of the window of as_millis is within 2 ms of the duration, and within 1 ms
\* when the window starts at or after the epoch.
C9_Seconds ==
    /\ out.op = "as_ccs_string" =>
          /\ IsDecimal(out.s)
          /\ LET n == ParseInt(out.s)
                 w == WholeSeconds(delta)
             IN  IF w >= 0 THEN n = w
                 ELSE IF delta.microseconds = 0 THEN n = w
                 ELSE n = w + 1
    /\ out.op = "as_millis" =>
          LET off == (out.end - out.start - WholeMillis(delta)) * MicrosPerMilli
                         - SubMilli(delta)
          IN  /\ off >= 0 - 2 * MicrosPerMilli /\ off <= 2 * MicrosPerMilli
              /\ Minus(out.now, delta).days >= 0 =>
                    off >= 0 - MicrosPerMilli /\ off <= MicrosPerMilli

\* One day serializes as 86400.
C9_Witness ==
    /\ out.op = "as_ccs_string"
    /\ delta = timedelta(1, 0, 0)
    /\ out.s = <<"8", "6", "4", "0", "0">>

====
